---- MODULE Spec2Model ----
(***************************************************************************)
(* The state-dict JSON loader (stateloader.cpp): LoadStateDict drives a    *)
(* rapidjson SAX reader over a file; the reader hands every token to a     *)
(* DictHandler, which keeps an explicit stack of ReadState tags, the       *)
(* pending key, shape buffer and value buffer, and the result dictionary.  *)
(*                                                                         *)
(* Numbers are modelled as integers: a Double token carries an             *)
(* integer-valued double, and static_cast<float> is modelled by RoundF32   *)
(* (24 significant bits).                                                  *)
(*                                                                         *)
(* Further sections model the other programs of the repository, each on    *)
(* its own variable and with its own specification: MaskRCNNImpl::Build,   *)
(* generate_polynomial and bgd of the polynomial regression, the weight    *)
(* loading of main, MaskRCNNImpl::Train and SetTrainableLayers.            *)
(***************************************************************************)
EXTENDS Integers, Sequences, FiniteSets, TLC

\* ------------------------------------------------------------ bounds
\* tokens the reader delivers for a document that is not a written one
MaxEvents == 11
\* nesting depth of JSON containers in such a document
MaxDepth == 4
\* largest dimension of a written tensor
MaxDim == 2

\* parameter names that occur in documents
Keys == {"a", "b"}
\* values of unsigned-integer tokens in free token streams
UintVals == {1, 2}
\* values of floating-point tokens in free token streams
DoubleVals == {-1}
\* values of negative-integer tokens
IntVals == {-2}

VARIABLES
    pc,             \* position in LoadStateDict: "call", "parse", "done"
    readable,       \* whether fopen(file_name, "r") succeeds (an input)
    fileOpen,       \* TRUE while the FILE* is open
    outcome,        \* how LoadStateDict ended: "none", "returned" or an exception
    result,         \* the mapping handed back to the caller
    current_state_, \* DictHandler::current_state_, top is the last element
    key_,           \* DictHandler::key_
    size_,          \* DictHandler::size_
    tensor_,        \* DictHandler::tensor_
    blob_,          \* DictHandler::blob_
    index_,         \* DictHandler::index_
    dict,           \* DictHandler::dict, a sequence of [key, value] items
    ctx,            \* the reader's open containers, innermost last
    rdr,            \* the reader: "root" before the root value, "in", "end" after it
    nread,          \* tokens delivered so far
    docKind,        \* the file's text: "written" by the writer, "other" entries,
                    \* or "free": any token stream the JSON grammar allows
    wdoc,           \* the entries of a "written" or "other" document
    rest,           \* tokens of that document still to be read
    topKeys,        \* keys of the Key tokens read directly under the root object
    lastEv,         \* the token the last handler call received
    asserted,       \* FALSE once an assert() of the handler evaluated to false
    sinceKey,       \* how many numbers were read since the last Key token (ghost)
    cur,            \* the LoadStateDict call whose locals the variables above hold
    other,          \* the locals of a second, concurrent call (<<>> if there is none)
    interleaved,    \* TRUE once the calls were switched while both were parsing
    buildSt,        \* MaskRCNN::Build: image_shape and how the call ended
    polySt,         \* generate_polynomial: arguments and the matrix poly_x
    bgdSt,          \* bgd: shape arguments, loop counters, rows the batches covered
    mainSt,         \* main: the model's parameters, the locals dict and params, params.dat
    trainSt,        \* MaskRCNNImpl::Train: epochs, the loop counter, the calls made
    layersSt        \* SetTrainableLayers: the parameters' requires_grad, the loop position

\* the locals of one LoadStateDict call
loaderVars == <<pc, readable, fileOpen, outcome, result, current_state_, key_, size_,
                tensor_, blob_, index_, dict, ctx, rdr, nread, docKind, wdoc, rest,
                topKeys, lastEv, asserted, sinceKey>>
\* what a step of a LoadStateDict call does not touch
auxVars == <<cur, other, interleaved, buildSt, polySt, bgdSt, mainSt, trainSt, layersSt>>

vars == <<loaderVars, auxVars>>

handlerVars == <<current_state_, key_, size_, tensor_, blob_, index_, dict>>

\* ------------------------------------------------------------ helpers
Top(s) == s[Len(s)]
Pop(s) == SubSeq(s, 1, Len(s) - 1)

RECURSIVE Ulp(_)
Ulp(a) == IF a < 16777216 THEN 1 ELSE 2 * Ulp(a \div 2)

\* nearest value with 24 significant bits, ties to even
RoundMag(a) ==
    LET u == Ulp(a)
        q == a \div u
        r == a % u
    IN  IF 2 * r < u THEN q * u
        ELSE IF 2 * r > u THEN (q + 1) * u
        ELSE IF q % 2 = 0 THEN q * u ELSE (q + 1) * u

\* static_cast<float>(x)
RoundF32(x) == IF x < 0 THEN 0 - RoundMag(0 - x) ELSE RoundMag(x)

\* a token: type, and the key or the value it carries
Ev(t, k, v) == [type |-> t, key |-> k, val |-> v]
NoEv == Ev("none", "", 0)

\* token types DictHandler does not override: BaseReaderHandler answers
\* them with Default(), which returns true and does nothing
DefaultTypes == {"Null", "Bool", "String", "Int", "Int64", "Uint64"}
ScalarTypes == {"Double", "Uint"} \cup DefaultTypes
ValueTypes == {"StartObject", "StartArray"} \cup ScalarTypes

\* default-constructed torch::Tensor
UndefinedTensor == [defined |-> FALSE, sizes |-> <<>>, data |-> <<>>]

\* ------------------------------------------------------------ documents
\* A payload is a number (leaf) or an array of payloads.
Leaf(tok) == [leaf |-> TRUE, tok |-> tok, items |-> <<>>]
Arr(items) == [leaf |-> FALSE, tok |-> NoEv, items |-> items]

RECURSIVE Product(_)
Product(s) == IF s = <<>> THEN 1 ELSE Head(s) * Product(Tail(s))

RECURSIVE Concat(_)
Concat(ss) == IF ss = <<>> THEN <<>> ELSE Head(ss) \o Concat(Tail(ss))

\* the payload the writer nests for a tensor of the given shape over the
\* row-major number tokens toks: a bare number for rank 0
RECURSIVE Nest(_, _)
Nest(shape, toks) ==
    IF shape = <<>> THEN Leaf(toks[1])
    ELSE LET inner == Product(Tail(shape))
         IN  Arr([i \in 1..Head(shape) |->
                    Nest(Tail(shape), SubSeq(toks, (i - 1) * inner + 1, i * inner))])

\* the number tokens of a payload in document order
RECURSIVE Flatten(_)
Flatten(p) ==
    IF p.leaf THEN <<p.tok>>
    ELSE Concat([i \in 1..Len(p.items) |-> Flatten(p.items[i])])

RECURSIVE SerPayload(_)
SerPayload(p) ==
    IF p.leaf THEN <<p.tok>>
    ELSE <<Ev("StartArray", "", 0)>>
         \o Concat([i \in 1..Len(p.items) |-> SerPayload(p.items[i])])
         \o <<Ev("EndArray", "", 0)>>

\* entry := string ':' '[' shape ',' payload ']'
SerEntry(e) ==
    <<Ev("Key", e.key, 0), Ev("StartArray", "", 0), Ev("StartArray", "", 0)>>
    \o [i \in 1..Len(e.shape) |-> Ev("Uint", "", e.shape[i])]
    \o <<Ev("EndArray", "", 0)>>
    \o SerPayload(e.payload)
    \o <<Ev("EndArray", "", 0)>>

\* file := '{' (entry (',' entry)*)? '}'
Serialize(doc) ==
    <<Ev("StartObject", "", 0)>>
    \o Concat([i \in 1..Len(doc) |-> SerEntry(doc[i])])
    \o <<Ev("EndObject", "", 0)>>

Entry(k, shape, payload) == [key |-> k, shape |-> shape, payload |-> payload]

\* number tokens a writer of float tensors emits, and tokens of other documents
WriterToks == <<Ev("Double", "", -1), Ev("Uint", "", 2), Ev("Double", "", 3)>>
OtherToks == <<Ev("Int", "", -2), Ev("Uint", "", 16777217), Ev("Double", "", 3)>>
TokRun(list, n, off) == [i \in 1..n |-> list[((i + off) % Len(list)) + 1]]

Shapes ==
    {<<>>} \cup {<<d>> : d \in 1..MaxDim}
    \cup {<<d, e>> : d \in 1..MaxDim, e \in 1..MaxDim}

\* the entry the writer emits for a tensor of shape s
WriterEntry(k, s, off) == Entry(k, s, Nest(s, TokRun(WriterToks, Product(s), off)))

\* payloads that need not match any shape: flat arrays of every length,
\* deeper and uneven nestings, bare numbers
OtherPayloads ==
    {Arr([i \in 1..n |-> Leaf(TokRun(list, n, 0)[i])]) :
        n \in 0..(MaxDim * MaxDim + 1), list \in {WriterToks, OtherToks}}
    \cup {Leaf(t) : t \in {WriterToks[1], OtherToks[1], OtherToks[2]}}
    \cup {Arr(<<Arr(<<Arr(<<Leaf(WriterToks[1]), Leaf(WriterToks[2])>>)>>)>>),
          Arr(<<Leaf(WriterToks[1]), Arr(<<Leaf(WriterToks[2])>>)>>),
          Arr(<<Arr(<<>>)>>)}

\* documents: what the writer emits for mappings of up to two tensors, and
\* single-entry documents whose payload is any of the above
WrittenDocs ==
    {<<>>}
    \cup {<<WriterEntry(k, s, off)>> : k \in Keys, s \in Shapes, off \in 0..1}
    \cup {<<WriterEntry(kl[1], s, 0), WriterEntry(kl[2], t, 1)>> :
            kl \in {x \in Keys \X Keys : x[1] # x[2]}, s \in Shapes, t \in Shapes}
OtherDocs ==
    {<<Entry("a", s, p)>> : s \in Shapes \cup {<<0>>}, p \in OtherPayloads}
    \cup {<<WriterEntry(k, s, 0), WriterEntry(k, <<>>, 1)>> :
            k \in Keys, s \in {<<>>, <<2>>}}

\* ------------------------------------------------------------ the reader
\* rapidjson::Reader::Parse delivers tokens in the order the JSON grammar
\* allows; ctx holds the open containers, n the elements begun in an array.
FreeTokens ==
    {Ev(t, "", 0) : t \in {"StartObject", "EndObject", "StartArray", "EndArray",
                           "Null", "String"}}
    \cup {Ev("Key", k, 0) : k \in Keys}
    \cup {Ev("Uint", "", v) : v \in UintVals}
    \cup {Ev("Double", "", v) : v \in DoubleVals}
    \cup {Ev("Int", "", v) : v \in IntVals}

CanEmit(t) ==
    IF ctx = <<>> THEN rdr = "root" /\ t \in ValueTypes
    ELSE IF Top(ctx).kind = "obj"
         THEN IF Top(ctx).want = "key" THEN t \in {"Key", "EndObject"}
              ELSE t \in ValueTypes
         ELSE t \in ValueTypes \cup {"EndArray"}

BeginValue(c) ==
    IF c # <<>> /\ Top(c).kind = "arr" THEN [c EXCEPT ![Len(c)].n = @ + 1] ELSE c
AfterValue(c) ==
    IF c # <<>> /\ Top(c).kind = "obj" THEN [c EXCEPT ![Len(c)].want = "key"] ELSE c

NextCtx(t) ==
    CASE t = "StartObject" ->
            Append(BeginValue(ctx), [kind |-> "obj", n |-> 0, want |-> "key"])
      [] t = "StartArray" ->
            Append(BeginValue(ctx), [kind |-> "arr", n |-> 0, want |-> "val"])
      [] t = "Key" -> [ctx EXCEPT ![Len(ctx)].want = "val"]
      [] t \in {"EndObject", "EndArray"} -> AfterValue(Pop(ctx))
      [] OTHER -> AfterValue(BeginValue(ctx))

\* the tokens the reader can deliver next
NextTokens ==
    IF docKind = "free"
    THEN {e \in FreeTokens :
            /\ nread < MaxEvents
            /\ CanEmit(e.type)
            /\ e.type \in {"StartObject", "StartArray"} => Len(ctx) < MaxDepth}
    ELSE IF rest = <<>> THEN {} ELSE {Head(rest)}

\* the count of the numbers read for the running entry: a Key token
\* starts it afresh, a number token counts one, and so does the EndArray
\* of an empty array, for the dimension 1 an empty shape array stands for
NumbersSince(seen, e) ==
    CASE e.type = "Key" -> 0
      [] e.type \in {"Double", "Uint", "Int", "Int64", "Uint64"} -> seen + 1
      [] e.type = "EndArray" /\ Top(ctx).n = 0 -> seen + 1
      [] OTHER -> seen

\* the reader delivers token e to the handler
Deliver(e) ==
    /\ pc = "parse"
    /\ e \in NextTokens
    /\ ctx' = NextCtx(e.type)
    /\ rdr' = IF NextCtx(e.type) = <<>> THEN "end" ELSE "in"
    /\ nread' = nread + 1
    /\ rest' = IF rest = <<>> THEN rest ELSE Tail(rest)
    /\ topKeys' = IF e.type = "Key" /\ Len(ctx) = 1 THEN Append(topKeys, e.key)
                  ELSE topKeys
    /\ lastEv' = e
    /\ sinceKey' = NumbersSince(sinceKey, e)
    /\ UNCHANGED <<readable, docKind, wdoc, tensor_>>
    /\ UNCHANGED auxVars

\* the handler returned true: Parse goes on
Continue == pc' = "parse" /\ UNCHANGED <<outcome, result, fileOpen>>
\* the handler threw: the exception leaves Parse and LoadStateDict at once
Throw(what) == pc' = "done" /\ outcome' = what /\ UNCHANGED <<result, fileOpen>>

\* ------------------------------------------------------------ DictHandler
HasKey(d, k) == \E i \in 1..Len(d) : d[i].key = k
InsertFront(d, k, t) == <<[key |-> k, value |-> t]>> \o d
\* torch::OrderedDict::insert appends the item (it throws on a key it holds)
Insert(d, k, t) == Append(d, [key |-> k, value |-> t])

\* std::vector::resize and clear
Resize(b, n) ==
    IF n <= Len(b) THEN SubSeq(b, 1, n) ELSE b \o [i \in 1..(n - Len(b)) |-> 0]
Clear(b) == <<>>

StartDataOnDelim(s) ==
    LET total_length == Product(size_')
    IN  /\ current_state_' = Append(Append(s, "SizeTensorPairDelim"), "TensorValue")
        /\ blob_' = Clear(Resize(blob_, total_length))
        /\ index_' = 0

\* StartData: push TensorValue on stack s, size the blob, reset the index
StartData(s) ==
    LET total_length == Product(size_')
    IN  /\ current_state_' = Append(s, "TensorValue")
        /\ blob_' = Clear(Resize(blob_, total_length))
        /\ index_' = 0

AddNewParamKeepsEntry(s) ==
    /\ current_state_' = <<"DictObject", "ParamName", "SizeTensorPair">>
    /\ IF HasKey(dict, key_)
       THEN Throw("c10_error") /\ dict' = dict
       ELSE Continue /\ dict' = Insert(dict, key_, tensor_)

AddNewParamNoCheck(s) ==
    /\ current_state_' = s
    /\ Continue
    /\ dict' = Insert(dict, key_, tensor_)

\* the part of EndArray that stores the entry: dict.insert(key_, tensor_)
AddNewParam(s) ==
    /\ current_state_' = s
    /\ IF HasKey(dict, key_)
       THEN Throw("c10_error") /\ dict' = dict
       ELSE Continue /\ dict' = Insert(dict, key_, tensor_)

Double ==
    \E e \in NextTokens :
        /\ e.type = "Double"
        /\ Deliver(e)
        /\ IF Top(current_state_) \in {"List", "TensorValue"}
           THEN /\ blob_' = Append(blob_, RoundF32(e.val))
                /\ index_' = index_ + 1
                /\ Continue
           ELSE /\ Throw("logic_error")
                /\ UNCHANGED <<blob_, index_>>
        /\ UNCHANGED <<current_state_, key_, size_, dict, asserted>>

UintIntoBlob ==
    \E e \in NextTokens :
        /\ e.type = "Uint"
        /\ Deliver(e)
        /\ IF Top(current_state_) \in {"List", "TensorValue", "TensorSize"}
           THEN /\ blob_' = Append(blob_, RoundF32(e.val))
                /\ index_' = index_ + 1
                /\ Continue
                /\ UNCHANGED size_
           ELSE /\ Throw("logic_error")
                /\ UNCHANGED <<size_, blob_, index_>>
        /\ UNCHANGED <<current_state_, key_, dict, asserted>>

Uint ==
    \E e \in NextTokens :
        /\ e.type = "Uint"
        /\ Deliver(e)
        /\ IF Top(current_state_) \in {"List", "TensorValue"}
           THEN /\ blob_' = Append(blob_, RoundF32(e.val))
                /\ index_' = index_ + 1
                /\ Continue
                /\ UNCHANGED size_
           ELSE IF Top(current_state_) = "TensorSize"
           THEN /\ size_' = Append(size_, e.val)
                /\ Continue
                /\ UNCHANGED <<blob_, index_>>
           ELSE /\ Throw("logic_error")
                /\ UNCHANGED <<size_, blob_, index_>>
        /\ UNCHANGED <<current_state_, key_, dict, asserted>>

Key ==
    \E e \in NextTokens :
        /\ e.type = "Key"
        /\ Deliver(e)
        /\ key_' = e.key
        /\ IF Top(current_state_) = "DictObject"
           THEN current_state_' = Append(current_state_, "ParamName") /\ Continue
           ELSE Throw("logic_error") /\ UNCHANGED current_state_
        /\ UNCHANGED <<size_, blob_, index_, dict, asserted>>

StartObject ==
    \E e \in NextTokens :
        /\ e.type = "StartObject"
        /\ Deliver(e)
        /\ IF Top(current_state_) = "None"
           THEN /\ current_state_' = Append(Pop(current_state_), "DictObject")
                /\ Continue
           ELSE Throw("logic_error") /\ UNCHANGED current_state_
        /\ UNCHANGED <<key_, size_, blob_, index_, dict, asserted>>

EndObjectWrongState ==
    \E e \in NextTokens :
        /\ e.type = "EndObject"
        /\ Deliver(e)
        /\ IF Top(current_state_) # "None"
           THEN Throw("logic_error")
           ELSE Continue
        /\ UNCHANGED <<current_state_, key_, size_, blob_, index_, dict, asserted>>

EndObjectPops ==
    \E e \in NextTokens :
        /\ e.type = "EndObject"
        /\ Deliver(e)
        /\ IF Top(current_state_) # "DictObject"
           THEN Throw("logic_error") /\ UNCHANGED current_state_
           ELSE Continue /\ current_state_' = Pop(current_state_)
        /\ UNCHANGED <<key_, size_, blob_, index_, dict, asserted>>

EndObject ==
    \E e \in NextTokens :
        /\ e.type = "EndObject"
        /\ Deliver(e)
        /\ IF Top(current_state_) # "DictObject"
           THEN Throw("logic_error")
           ELSE Continue
        /\ UNCHANGED <<current_state_, key_, size_, blob_, index_, dict, asserted>>

StartArray ==
    \E e \in NextTokens :
        /\ e.type = "StartArray"
        /\ Deliver(e)
        /\ CASE Top(current_state_) = "List" ->
                  /\ current_state_' = Append(current_state_, "List")
                  /\ Continue
                  /\ UNCHANGED <<size_, blob_, index_>>
             [] Top(current_state_) = "ParamName" ->
                  /\ current_state_' = Append(current_state_, "SizeTensorPair")
                  /\ Continue
                  /\ UNCHANGED <<size_, blob_, index_>>
             [] Top(current_state_) = "SizeTensorPair" ->
                  /\ current_state_' = Append(current_state_, "TensorSize")
                  /\ size_' = <<>>
                  /\ Continue
                  /\ UNCHANGED <<blob_, index_>>
             [] Top(current_state_) = "SizeTensorPairDelim" ->
                  /\ size_' = size_
                  /\ StartData(Pop(current_state_))
                  /\ Continue
             [] Top(current_state_) = "TensorValue" ->
                  /\ current_state_' = Append(current_state_, "List")
                  /\ Continue
                  /\ UNCHANGED <<size_, blob_, index_>>
             [] OTHER ->
                  /\ Throw("logic_error")
                  /\ UNCHANGED <<current_state_, size_, blob_, index_>>
        /\ UNCHANGED <<key_, dict, asserted>>

EndArray ==
    \E e \in NextTokens :
        /\ e.type = "EndArray"
        /\ Deliver(e)
        /\ LET elementCount == Top(ctx).n
               popped == Pop(current_state_)
           IN
           CASE Top(current_state_) = "List" ->
                  /\ current_state_' = popped
                  /\ Continue
                  /\ UNCHANGED <<size_, blob_, index_, dict, asserted>>
             [] Top(current_state_) = "SizeTensorPair" ->
                  /\ asserted' = (asserted /\ Top(popped) = "ParamName")
                  /\ AddNewParam(Pop(popped))
                  /\ UNCHANGED <<size_, blob_, index_>>
             [] Top(current_state_) = "TensorSize" ->
                  /\ IF elementCount = 0
                     THEN /\ size_' = Append(size_, 1)
                          /\ StartData(popped)
                     ELSE /\ current_state_' = Append(popped, "SizeTensorPairDelim")
                          /\ UNCHANGED <<size_, blob_, index_>>
                  /\ Continue
                  /\ UNCHANGED <<dict, asserted>>
             [] Top(current_state_) = "TensorValue" ->
                  /\ IF Len(blob_) = 1
                     THEN /\ asserted' = (/\ asserted
                                          /\ index_ = Len(blob_)
                                          /\ Top(popped) = "SizeTensorPair"
                                          /\ Top(Pop(popped)) = "ParamName")
                          /\ AddNewParam(Pop(Pop(popped)))
                     ELSE /\ asserted' = (asserted /\ index_ = Len(blob_))
                          /\ current_state_' = popped
                          /\ Continue
                          /\ dict' = dict
                  /\ UNCHANGED <<size_, blob_, index_>>
             [] OTHER ->
                  /\ Throw("logic_error")
                  /\ UNCHANGED <<current_state_, size_, blob_, index_, dict, asserted>>
        /\ UNCHANGED key_

\* Null, Bool, String, Int, Int64, Uint64: BaseReaderHandler::Default
Default ==
    \E e \in NextTokens :
        /\ e.type \in DefaultTypes
        /\ Deliver(e)
        /\ Continue
        /\ UNCHANGED <<current_state_, key_, size_, blob_, index_, dict, asserted>>

\* ------------------------------------------------------------ LoadStateDict
\* std::fopen; a file that cannot be opened yields an empty OrderedDict
Fopen ==
    /\ pc = "call"
    /\ IF readable
       THEN /\ fileOpen' = TRUE
            /\ pc' = "parse"
            /\ UNCHANGED <<outcome, result>>
       ELSE /\ pc' = "done"
            /\ outcome' = "returned"
            /\ result' = <<>>
            /\ UNCHANGED fileOpen
    /\ UNCHANGED <<readable, handlerVars, ctx, rdr, nread, docKind, wdoc, rest,
                   topKeys, lastEv, asserted, sinceKey>>
    /\ UNCHANGED auxVars

\* Parse read the whole root value: fclose, return handler.dict
ParseReturns ==
    /\ pc = "parse"
    /\ rdr = "end"
    /\ docKind = "free" \/ rest = <<>>
    /\ fileOpen' = FALSE
    /\ pc' = "done"
    /\ outcome' = "returned"
    /\ result' = dict
    /\ UNCHANGED <<readable, handlerVars, ctx, rdr, nread, docKind, wdoc, rest,
                   topKeys, lastEv, asserted, sinceKey>>
    /\ UNCHANGED auxVars

\* Parse met malformed text (anywhere in a free document): fclose, throw
\* runtime_error with the reader's message
ParseFails ==
    /\ pc = "parse"
    /\ docKind = "free"
    /\ fileOpen' = FALSE
    /\ pc' = "done"
    /\ outcome' = "runtime_error"
    /\ UNCHANGED <<readable, result, handlerVars, ctx, rdr, nread, docKind, wdoc,
                   rest, topKeys, lastEv, asserted, sinceKey>>
    /\ UNCHANGED auxVars

\* no second call, and the other programs are not running
NoBuild == [pc |-> "idle", h |-> 0, w |-> 0]
NoPoly == [pc |-> "idle", x |-> <<>>, degree |-> 0, poly_x |-> <<>>]
NoBgd == [pc |-> "idle", rows |-> 0, batch_size |-> 1, batches |-> 0,
          i |-> 0, bi |-> 0, covered |-> <<>>, used |-> {}]
NoMain == [pc |-> "idle", json |-> FALSE, file |-> <<>>, model |-> <<>>,
           dict |-> <<>>, params |-> <<>>, saved |-> <<>>]
NoTrain == [pc |-> "idle", epochs |-> 0, epoch |-> 0, trained |-> <<>>,
            saveCalls |-> <<>>]
NoLayers == [pc |-> "idle", re |-> {}, i |-> 0, grad |-> <<>>, before |-> <<>>]
AuxIdle ==
    /\ cur = 1
    /\ other = <<>>
    /\ interleaved = FALSE
    /\ buildSt = NoBuild
    /\ polySt = NoPoly
    /\ bgdSt = NoBgd
    /\ mainSt = NoMain
    /\ trainSt = NoTrain
    /\ layersSt = NoLayers

Init ==
    /\ pc = "call"
    /\ readable \in BOOLEAN
    /\ fileOpen = FALSE
    /\ outcome = "none"
    /\ result = <<>>
    /\ current_state_ = <<"None">>
    /\ key_ = ""
    /\ size_ = <<>>
    /\ tensor_ = UndefinedTensor
    /\ blob_ = <<>>
    /\ index_ = 0
    /\ dict = <<>>
    /\ ctx = <<>>
    /\ rdr = "root"
    /\ nread = 0
    /\ docKind \in {"free", "written", "other"}
    /\ wdoc \in (CASE docKind = "written" -> WrittenDocs
                   [] docKind = "other" -> OtherDocs
                   [] OTHER -> {<<>>})
    /\ rest = IF docKind = "free" THEN <<>> ELSE Serialize(wdoc)
    /\ topKeys = <<>>
    /\ lastEv = NoEv
    /\ asserted = TRUE
    /\ sinceKey = 0
    /\ AuxIdle

Next ==
    \/ Fopen
    \/ Double
    \/ Uint
    \/ Key
    \/ StartObject
    \/ EndObject
    \/ StartArray
    \/ EndArray
    \/ Default
    \/ ParseReturns
    \/ ParseFails

Spec == Init /\ [][Next]_vars

\* ------------------------------------------------------------ two calls
\* Everything a LoadStateDict call works on is a local of the call (file,
\* readBuffer, reader, handler), so a second call running in another thread
\* has its own copy of it.  The variables hold the locals of call cur, other
\* those of the suspended call; Switch lets the other thread run next.
Locals ==
    [pc |-> pc, readable |-> readable, fileOpen |-> fileOpen, outcome |-> outcome,
     result |-> result, current_state_ |-> current_state_, key_ |-> key_,
     size_ |-> size_, tensor_ |-> tensor_, blob_ |-> blob_, index_ |-> index_,
     dict |-> dict, ctx |-> ctx, rdr |-> rdr, nread |-> nread, docKind |-> docKind,
     wdoc |-> wdoc, rest |-> rest, topKeys |-> topKeys, lastEv |-> lastEv,
     asserted |-> asserted, sinceKey |-> sinceKey]

\* the locals of a call that has not started
NewCall(rd, kind, doc) ==
    [pc |-> "call", readable |-> rd, fileOpen |-> FALSE, outcome |-> "none",
     result |-> <<>>, current_state_ |-> <<"None">>, key_ |-> "", size_ |-> <<>>,
     tensor_ |-> UndefinedTensor, blob_ |-> <<>>, index_ |-> 0, dict |-> <<>>,
     ctx |-> <<>>, rdr |-> "root", nread |-> 0, docKind |-> kind, wdoc |-> doc,
     rest |-> Serialize(doc), topKeys |-> <<>>, lastEv |-> NoEv, asserted |-> TRUE,
     sinceKey |-> 0]

Resume(l) ==
    /\ pc' = l.pc
    /\ readable' = l.readable
    /\ fileOpen' = l.fileOpen
    /\ outcome' = l.outcome
    /\ result' = l.result
    /\ current_state_' = l.current_state_
    /\ key_' = l.key_
    /\ size_' = l.size_
    /\ tensor_' = l.tensor_
    /\ blob_' = l.blob_
    /\ index_' = l.index_
    /\ dict' = l.dict
    /\ ctx' = l.ctx
    /\ rdr' = l.rdr
    /\ nread' = l.nread
    /\ docKind' = l.docKind
    /\ wdoc' = l.wdoc
    /\ rest' = l.rest
    /\ topKeys' = l.topKeys
    /\ lastEv' = l.lastEv
    /\ asserted' = l.asserted
    /\ sinceKey' = l.sinceKey

BothParsing ==
    /\ other # <<>>
    /\ pc = "parse" /\ nread > 0
    /\ other[1].pc = "parse" /\ other[1].nread > 0

\* as if key_ were one object shared by the calls
SwitchSharedKey ==
    /\ other # <<>>
    /\ other' = <<Locals>>
    /\ Resume([other[1] EXCEPT !.key_ = key_])
    /\ cur' = 3 - cur
    /\ interleaved' = (interleaved \/ BothParsing)
    /\ UNCHANGED <<buildSt, polySt, bgdSt, mainSt, trainSt, layersSt>>

\* the scheduler runs the other thread
Switch ==
    /\ other # <<>>
    /\ other' = <<Locals>>
    /\ Resume(other[1])
    /\ cur' = 3 - cur
    /\ interleaved' = (interleaved \/ BothParsing)
    /\ UNCHANGED <<buildSt, polySt, bgdSt, mainSt, trainSt, layersSt>>

\* the files of two concurrent calls
ConcDocs ==
    {<<>>,
     <<WriterEntry("a", <<2>>, 0)>>,
     <<WriterEntry("b", <<1>>, 0)>>,
     <<WriterEntry("b", <<>>, 0), WriterEntry("a", <<1, 2>>, 1)>>,
     <<WriterEntry("a", <<>>, 0), WriterEntry("a", <<>>, 1)>>,
     <<Entry("a", <<2>>, Arr(<<Leaf(OtherToks[1]), Leaf(OtherToks[2]), Leaf(OtherToks[3])>>))>>}

InitConc ==
    /\ \E rd \in BOOLEAN, doc \in ConcDocs :
        /\ pc = "call"
        /\ readable = rd
        /\ fileOpen = FALSE
        /\ outcome = "none"
        /\ result = <<>>
        /\ current_state_ = <<"None">>
        /\ key_ = ""
        /\ size_ = <<>>
        /\ tensor_ = UndefinedTensor
        /\ blob_ = <<>>
        /\ index_ = 0
        /\ dict = <<>>
        /\ ctx = <<>>
        /\ rdr = "root"
        /\ nread = 0
        /\ docKind = "other"
        /\ wdoc = doc
        /\ rest = Serialize(doc)
        /\ topKeys = <<>>
        /\ lastEv = NoEv
        /\ asserted = TRUE
        /\ sinceKey = 0
    /\ cur = 1
    /\ other \in {<<NewCall(TRUE, "other", doc)>> : doc \in ConcDocs}
    /\ interleaved = FALSE
    /\ buildSt = NoBuild
    /\ polySt = NoPoly
    /\ bgdSt = NoBgd
    /\ mainSt = NoMain
    /\ trainSt = NoTrain
    /\ layersSt = NoLayers

NextConc ==
    \/ Fopen
    \/ Double
    \/ Uint
    \/ Key
    \/ StartObject
    \/ EndObject
    \/ StartArray
    \/ EndArray
    \/ Default
    \/ ParseReturns
    \/ Switch

SpecConc == InitConc /\ [][NextConc]_vars

\* ------------------------------------------------------------ properties
KeysOf(d) == [i \in 1..Len(d) |-> d[i].key]
Failed == outcome \in {"logic_error", "runtime_error", "c10_error"}

\* the float values of the number tokens of a payload, in document order
ValuesOf(p) == [j \in 1..Len(Flatten(p)) |-> RoundF32(Flatten(p)[j].val)]
\* the tensor an entry stands for; a rank-0 tensor is read back with shape [1]
TensorOf(e) ==
    [defined |-> TRUE,
     sizes |-> IF e.shape = <<>> THEN <<1>> ELSE e.shape,
     data |-> ValuesOf(e.payload)]
MappingOf(doc) == [i \in 1..Len(doc) |-> [key |-> doc[i].key, value |-> TensorOf(doc[i])]]

\* C1: whenever LoadStateDict returns, the returned mapping has one entry
\* per Key token read under the root object, in the order of the file.
C1_OneEntryPerKeyInOrder ==
    outcome = "returned" => KeysOf(result) = topKeys

C1_Witness ==
    /\ outcome = "returned"
    /\ readable
    /\ topKeys = <<"b", "a">>
    /\ KeysOf(result) = <<"b", "a">>

\* C2: round trip: for every document the writer produces, Load returns, and
\* the mapping it returns equals the written one in keys, order, shapes and
\* element values.
C2_RoundTrip ==
    (docKind = "written" /\ readable /\ pc = "done")
        => (outcome = "returned" /\ result = MappingOf(wdoc))

\* the entry's payload holds a number of values other than product(shape)
Mismatch(e) == Len(Flatten(e.payload)) # Product(e.shape)

\* C3: a document with an entry whose payload holds more or fewer values
\* than its shape declares makes Load fail; no mapping with that entry is
\* returned.
C3_LengthMismatchFails ==
    (docKind = "other" /\ readable /\ pc = "done" /\ Len(wdoc) = 1
        /\ Mismatch(wdoc[1]))
        => (Failed /\ ~HasKey(result, wdoc[1].key))

ZeroRank(doc) == Len(doc) = 1 /\ doc[1].shape = <<>> /\ doc[1].payload.leaf

\* C4: for "name: [[], v]" the EndArray of the empty shape array pushes
\* dimension 1 and enters TensorValue directly; after the entry's last token
\* the entry has been committed once with shape [1] and values [v], and the
\* stack is back at the top-level object.
C4_ZeroRank ==
    (docKind # "free" /\ ZeroRank(wdoc) /\ pc = "parse")
        => /\ Len(rest) = 3 =>
                /\ Top(current_state_) = "TensorValue"
                /\ size_ = <<1>>
                /\ blob_ = <<>>
           /\ Len(rest) = 1 =>
                /\ current_state_ = <<"DictObject">>
                /\ dict = MappingOf(wdoc)

\* the reader has just closed the payload array of the only entry
AtPayloadEnd ==
    /\ docKind # "free"
    /\ Len(wdoc) = 1
    /\ ~wdoc[1].payload.leaf
    /\ wdoc[1].shape # <<>>
    /\ ~Mismatch(wdoc[1])
    /\ pc = "parse"
    /\ Len(rest) = 2

\* C5: at the end of a payload of nested arrays the shape buffer holds the
\* declared dimensions and the value buffer the payload's numbers in
\* document order, however deeply they are nested.
C5_NestedPayloadFlattened ==
    AtPayloadEnd => (size_ = wdoc[1].shape /\ blob_ = ValuesOf(wdoc[1].payload))

\* C6: a path that cannot be opened makes Load fail; no mapping is returned.
C6_OpenFailureFails ==
    (~readable /\ pc = "done") => outcome # "returned"

\* C7: when LoadStateDict is left, by return or by exception, the file
\* handle is closed.
C7_FileClosedOnExit ==
    pc = "done" => ~fileOpen

\* C8: a root value that is not an object (array, number, string, boolean,
\* null) makes Load fail.
C8_NonObjectRootFails ==
    (pc = "done" /\ nread = 1 /\ lastEv.type # "StartObject") => Failed

NumberTypes == {"Double", "Uint", "Int", "Int64", "Uint64"}
\* the transitions the state machine lists
Listed(t, st) ==
    CASE t = "StartObject" -> st = "None"
      [] t = "Key" -> st = "DictObject"
      [] t = "EndObject" -> st = "DictObject"
      [] t = "StartArray" ->
            st \in {"ParamName", "SizeTensorPair", "SizeTensorPairDelim",
                    "TensorValue", "List"}
      [] t = "EndArray" ->
            st \in {"List", "SizeTensorPair", "TensorSize", "TensorValue"}
      [] t = "Double" -> st \in {"TensorValue", "List"}
      [] t \in NumberTypes \ {"Double"} -> st \in {"TensorSize", "TensorValue", "List"}
      [] OTHER -> TRUE

\* C9: a StartObject, EndObject, Key, StartArray, EndArray or number token
\* arriving in a state with no listed transition makes the parse fail, and
\* the handler leaves stack, shape buffer, value buffer and dictionary
\* unchanged.
C9_UnlistedEventFails ==
    [][(pc = "parse" /\ nread' = nread + 1
            /\ ~Listed(lastEv'.type, Top(current_state_)))
        => (/\ pc' = "done"
            /\ outcome' = "logic_error"
            /\ UNCHANGED <<current_state_, size_, blob_, dict>>)]_vars

\* C10: Load returns no partial result: a returned mapping is that of a file
\* that was opened and read to the end of its root value, with all its
\* entries; otherwise the call fails.
C10_NoPartialResult ==
    (pc = "done" /\ outcome = "returned")
        => (readable /\ rdr = "end" /\ KeysOf(result) = topKeys)

\* the reader has read exactly the two tokens of the document {}
EmptyObjectRead == nread = 2 /\ lastEv.type = "EndObject"

\* C11: the document {} is accepted: no handler throws on it, nothing is
\* committed, and Load returns an empty mapping.
C11_EmptyObjectAccepted ==
    EmptyObjectRead =>
        /\ outcome \notin {"logic_error", "c10_error"}
        /\ dict = <<>>
        /\ outcome = "returned" => result = <<>>
        /\ (docKind = "written" /\ pc = "done") => outcome = "returned"

C11_Witness ==
    /\ EmptyObjectRead
    /\ docKind = "written"
    /\ wdoc = <<>>
    /\ outcome = "returned"
    /\ result = <<>>

\* ------------------------------------------------------------ a call alone
\* What one call computes on a token sequence when nothing else runs: the
\* handlers of DictHandler as functions on a record of its fields (cnt is
\* the elementCount the reader keeps for the shape array).
H0 == [st |-> <<"None">>, key |-> "", size |-> <<>>, blob |-> <<>>, index |-> 0,
       dict |-> <<>>, cnt |-> 0, out |-> "none"]

HThrow(h) == [h EXCEPT !.out = "logic_error"]
HCommit(h, s) ==
    IF HasKey(h.dict, h.key) THEN [h EXCEPT !.st = s, !.out = "c10_error"]
    ELSE [h EXCEPT !.st = s, !.dict = Insert(h.dict, h.key, UndefinedTensor)]
HStartData(h, s) == [h EXCEPT !.st = Append(s, "TensorValue"), !.blob = <<>>, !.index = 0]

HStep(h, e) ==
    LET top == Top(h.st) IN
    CASE h.out # "none" -> h
      [] e.type \in {"Double", "Uint"} /\ top \in {"List", "TensorValue"} ->
            [h EXCEPT !.blob = Append(h.blob, RoundF32(e.val)), !.index = h.index + 1]
      [] e.type = "Uint" /\ top = "TensorSize" ->
            [h EXCEPT !.size = Append(h.size, e.val), !.cnt = h.cnt + 1]
      [] e.type \in {"Double", "Uint"} -> HThrow(h)
      [] e.type = "Key" ->
            IF top = "DictObject"
            THEN [h EXCEPT !.key = e.key, !.st = Append(h.st, "ParamName")]
            ELSE HThrow([h EXCEPT !.key = e.key])
      [] e.type = "StartObject" ->
            IF top = "None" THEN [h EXCEPT !.st = Append(Pop(h.st), "DictObject")]
            ELSE HThrow(h)
      [] e.type = "EndObject" -> IF top = "DictObject" THEN h ELSE HThrow(h)
      [] e.type = "StartArray" ->
            CASE top \in {"List", "TensorValue"} -> [h EXCEPT !.st = Append(h.st, "List")]
              [] top = "ParamName" -> [h EXCEPT !.st = Append(h.st, "SizeTensorPair")]
              [] top = "SizeTensorPair" ->
                    [h EXCEPT !.st = Append(h.st, "TensorSize"), !.size = <<>>, !.cnt = 0]
              [] top = "SizeTensorPairDelim" -> HStartData(h, Pop(h.st))
              [] OTHER -> HThrow(h)
      [] e.type = "EndArray" ->
            CASE top = "List" -> [h EXCEPT !.st = Pop(h.st)]
              [] top = "SizeTensorPair" -> HCommit(h, Pop(Pop(h.st)))
              [] top = "TensorSize" ->
                    IF h.cnt = 0
                    THEN HStartData([h EXCEPT !.size = Append(h.size, 1)], Pop(h.st))
                    ELSE [h EXCEPT !.st = Append(Pop(h.st), "SizeTensorPairDelim")]
              [] top = "TensorValue" ->
                    IF Len(h.blob) = 1 THEN HCommit(h, Pop(Pop(Pop(h.st))))
                    ELSE [h EXCEPT !.st = Pop(h.st)]
              [] OTHER -> HThrow(h)
      [] OTHER -> IF top = "TensorSize" THEN [h EXCEPT !.cnt = h.cnt + 1] ELSE h

RECURSIVE HRun(_, _)
HRun(h, toks) == IF toks = <<>> THEN h ELSE HRun(HStep(h, Head(toks)), Tail(toks))

\* outcome and result of LoadStateDict on the file of document doc
Alone(rd, doc) ==
    IF ~rd THEN <<"returned", <<>>>>
    ELSE LET h == HRun(H0, Serialize(doc))
         IN  IF h.out # "none" THEN <<h.out, <<>>>> ELSE <<"returned", h.dict>>

\* C12: two calls on different files running concurrently share no parser
\* state: however their handlers interleave, each call ends as it does when
\* it runs alone on its file.
C12_ConcurrentCallsIndependent ==
    /\ pc = "done" => <<outcome, result>> = Alone(readable, wdoc)
    /\ (other # <<>> /\ other[1].pc = "done")
          => <<other[1].outcome, other[1].result>> = Alone(other[1].readable, other[1].wdoc)

C12_Witness ==
    /\ other # <<>>
    /\ interleaved
    /\ pc = "done" /\ outcome = "returned"
    /\ other[1].pc = "done" /\ other[1].outcome = "returned"
    /\ KeysOf(result) = <<"b", "a">>
    /\ KeysOf(other[1].result) = <<"a">>

\* the file holds one entry with a declared shape and an array payload of
\* exactly product(shape) Double and Uint tokens
ArrayEntry ==
    /\ docKind # "free"
    /\ readable
    /\ Len(wdoc) = 1
    /\ ~wdoc[1].payload.leaf
    /\ wdoc[1].shape # <<>>
    /\ ~Mismatch(wdoc[1])
    /\ \A j \in 1..Len(Flatten(wdoc[1].payload)) :
          Flatten(wdoc[1].payload)[j].type \in {"Double", "Uint"}

\* C16: an entry with an array payload is committed at the EndArray that
\* closes its [shape, payload] pair: when the payload's own EndArray has
\* been handled the handler is back in the pair state with nothing
\* committed, the pair's EndArray commits the entry, and Load returns;
\* this holds whatever the number of values, one value included.
C16_CommitAtPairEnd ==
    ArrayEntry =>
        /\ Len(rest) = 2 =>
              /\ pc = "parse"
              /\ Top(current_state_) = "SizeTensorPair"
              /\ dict = <<>>
        /\ (nread > 0 /\ Len(rest) = 1) =>
              /\ pc = "parse"
              /\ KeysOf(dict) = <<wdoc[1].key>>
        /\ pc = "done" => outcome = "returned"

\* C17: the tensor stored by a commit has the shape held by the shape
\* buffer and the values held by the value buffer at the commit.
C17_StoredTensorIsBuffers ==
    [][Len(dict') = Len(dict) + 1
          => dict'[Len(dict')].value =
                [defined |-> TRUE, sizes |-> size_, data |-> blob_]]_vars

\* C18: every Start event pushes exactly one state, every End event pops
\* exactly one, the root state None stays at the bottom of the stack, and
\* after the EndObject of the root object the stack is the root state
\* alone.
C18_StackDiscipline ==
    [][(pc = "parse" /\ nread' = nread + 1 /\ pc' = "parse") =>
          /\ lastEv'.type \in {"StartObject", "StartArray"}
                => (/\ Len(current_state_') = Len(current_state_) + 1
                    /\ Pop(current_state_') = current_state_)
          /\ lastEv'.type \in {"EndObject", "EndArray"}
                => current_state_' = Pop(current_state_)
          /\ current_state_'[1] = "None"
          /\ rdr' = "end" => current_state_' = <<"None">>]_vars

\* C19: the stack of states is never empty, whether the tokens are
\* accepted or rejected.
C19_StackNeverEmpty == Len(current_state_) >= 1

\* a commit has just popped the states of an entry off the stack, and a
\* later token has been rejected with the stack as it stood
C19_Witness ==
    /\ outcome = "logic_error"
    /\ dict # <<>>
    /\ current_state_ = <<"DictObject">>
    /\ lastEv.type = "EndArray"

\* C20: in TensorValue or List every number token, whichever of Double,
\* Uint, Int, Int64, Uint64 the reader reports it as, appends one value to
\* the value buffer and advances the write index by one.
C20_EveryNumberAppends ==
    [][(pc = "parse" /\ nread' = nread + 1
            /\ lastEv'.type \in NumberTypes
            /\ Top(current_state_) \in {"TensorValue", "List"})
        => (/\ blob_' = Append(blob_, RoundF32(lastEv'.val))
            /\ index_' = index_ + 1)]_vars

\* C21: a Uint token is routed by the state on top of the stack: in
\* TensorSize it appends one dimension to the shape buffer and leaves the
\* value buffer and the write index alone; in TensorValue or List it
\* appends one value to the value buffer and leaves the shape buffer
\* alone; a Double token in TensorSize is rejected.
C21_UintRoutedByState ==
    [][(pc = "parse" /\ nread' = nread + 1) =>
          /\ (lastEv'.type = "Uint" /\ Top(current_state_) = "TensorSize")
                => (/\ size_' = Append(size_, lastEv'.val)
                    /\ UNCHANGED <<blob_, index_>>
                    /\ pc' = "parse")
          /\ (lastEv'.type = "Uint"
                  /\ Top(current_state_) \in {"TensorValue", "List"})
                => (/\ blob_' = Append(blob_, RoundF32(lastEv'.val))
                    /\ UNCHANGED size_
                    /\ pc' = "parse")
          /\ (lastEv'.type = "Double" /\ Top(current_state_) = "TensorSize")
                => (/\ pc' = "done" /\ outcome' = "logic_error"
                    /\ UNCHANGED <<size_, blob_, index_>>)]_vars

\* a dimension has been read into the shape buffer and a Double that
\* follows it in the shape array has been rejected
C21_Witness ==
    /\ lastEv.type = "Double"
    /\ outcome = "logic_error"
    /\ Top(current_state_) = "TensorSize"
    /\ size_ = <<2>>
    /\ blob_ = <<>>
    /\ index_ = 0

\* C22: whenever an entry is committed, the shape buffer and the value
\* buffer hold only data read after the entry's own Key token: together
\* they hold no more elements than numbers were read since that Key.
C22_BuffersHoldOwnData ==
    [][Len(dict') = Len(dict) + 1
          => Len(size_) + Len(blob_) <= sinceKey]_vars

\* sequence ks holds some key twice
Repeats(ks) == \E i, j \in 1..Len(ks) : i < j /\ ks[i] = ks[j]

\* C23: the keys of the result dictionary are unique in every state; a
\* commit under a key the dictionary already holds fails the load and
\* leaves the dictionary as it was (no second entry, the first one kept);
\* a document that names a key twice is never returned.
C23_KeysUnique ==
    [][/\ ~Repeats(KeysOf(dict'))
       /\ (outcome = "none" /\ outcome' = "c10_error")
             => (/\ HasKey(dict, key_)
                 /\ dict' = dict
                 /\ pc' = "done"
                 /\ result' = <<>>)
       /\ (lastEv'.type = "EndArray" /\ nread' = nread + 1 /\ HasKey(dict, key_)
               /\ Top(current_state_) = "SizeTensorPair")
             => outcome' = "c10_error"
       /\ Repeats(topKeys') => outcome' # "returned"]_vars

\* the second commit under key "a" has failed the load
C23_Witness ==
    /\ topKeys = <<"a", "a">>
    /\ outcome = "c10_error"
    /\ pc = "done"
    /\ KeysOf(dict) = <<"a">>
    /\ result = <<>>

\* the List states pushed over TensorValue
Lists(n) == [i \in 1..n |-> "List"]
InEntry == <<"DictObject", "ParamName", "SizeTensorPair">>

\* the shapes of the stack, bottom first
StackForms ==
    {<<"None">>, <<"DictObject">>, <<"DictObject", "ParamName">>, InEntry,
     Append(InEntry, "TensorSize"), Append(InEntry, "SizeTensorPairDelim")}
    \cup {Append(InEntry, "TensorValue") \o Lists(n) : n \in 0..MaxDepth}

\* C27: between events the stack has one of the forms [None], [DictObject],
\* [DictObject, ParamName], [DictObject, ParamName, SizeTensorPair],
\* [.., SizeTensorPair, TensorSize], [.., SizeTensorPair, SizeTensorPairDelim]
\* or [.., SizeTensorPair, TensorValue, List*]; so none of the assertions of
\* EndArray about the state uncovered by a pop fails.
C27_StackForms ==
    /\ current_state_ \in StackForms
    /\ asserted

\* an EndArray has run the assertions about the uncovered states and
\* committed an entry with a two-dimensional shape
C27_Witness ==
    /\ lastEv.type = "EndArray"
    /\ current_state_ = <<"DictObject">>
    /\ Len(dict) = 1
    /\ Len(blob_) = 1
    /\ Len(size_) = 2
    /\ asserted

\* the Key tokens the handler has accepted so far
KeysAccepted ==
    IF lastEv.type = "Key" /\ outcome = "logic_error"
    THEN Len(topKeys) - 1 ELSE Len(topKeys)
\* ParamName is on the stack: an entry is being read
EntryOpen == \E i \in 1..Len(current_state_) : current_state_[i] = "ParamName"

\* C28: no key is committed twice: in every reachable state the number of
\* entries inserted into the dictionary, plus one if ParamName is on the
\* stack, equals the number of Key tokens accepted so far.
C28_OneCommitPerKey ==
    Len(dict) + (IF EntryOpen THEN 1 ELSE 0) = KeysAccepted

\* C28 (as it holds): the same equality in every state in which no
\* insertion has been refused; when dict.insert refuses a key it already
\* holds, the states of the entry have been popped and nothing was
\* inserted, so the sum is one less than the number of accepted keys.
C28_OneCommitPerKeyUnlessRefused ==
    /\ outcome # "c10_error"
          => Len(dict) + (IF EntryOpen THEN 1 ELSE 0) = KeysAccepted
    /\ outcome = "c10_error"
          => Len(dict) + 1 = KeysAccepted /\ ~EntryOpen

\* a payload of exactly one value was committed at its own EndArray and
\* the pair's EndArray that follows was rejected without a second insert
C28_Witness ==
    /\ lastEv.type = "EndArray"
    /\ outcome = "logic_error"
    /\ current_state_ = <<"DictObject">>
    /\ Len(dict) = 1
    /\ topKeys = <<"a">>
    /\ docKind = "other"

\* C29: an entry is committed only after exactly one shape array and one
\* payload were read for its key: at every commit the array that is the
\* key's value holds exactly two elements, the payload included.
C29_CommitAfterShapeAndPayload ==
    [][Len(dict') = Len(dict) + 1 => (Len(ctx) >= 2 /\ ctx[2].n = 2)]_vars

\* C30: entering TensorValue resets the write index to 0, and the assert
\* at the EndArray that closes the payload fails exactly when the number
\* of values written differs from product(shape), the element count the
\* storage was sized to.
C30_AssertComparesWithProduct ==
    [][(pc = "parse" /\ nread' = nread + 1) =>
          /\ (Top(current_state_) # "TensorValue"
                  /\ Top(current_state_') = "TensorValue"
                  /\ Len(current_state_') >= Len(current_state_))
                => index_' = 0
          /\ (lastEv'.type = "EndArray" /\ Top(current_state_) = "TensorValue"
                  /\ asserted)
                => (asserted' <=> index_ = Product(size_))]_vars

\* ---------------------------------------------------------------------
\* MaskRCNNImpl::Build: the image size check
\* ---------------------------------------------------------------------

\* the loader is not running
LoaderIdle ==
    /\ pc = "idle"
    /\ readable = FALSE
    /\ fileOpen = FALSE
    /\ outcome = "none"
    /\ result = <<>>
    /\ current_state_ = <<"None">>
    /\ key_ = ""
    /\ size_ = <<>>
    /\ tensor_ = UndefinedTensor
    /\ blob_ = <<>>
    /\ index_ = 0
    /\ dict = <<>>
    /\ ctx = <<>>
    /\ rdr = "root"
    /\ nread = 0
    /\ docKind = "free"
    /\ wdoc = <<>>
    /\ rest = <<>>
    /\ topKeys = <<>>
    /\ lastEv = NoEv
    /\ asserted = TRUE
    /\ sinceKey = 0

\* config_->image_shape[0] and [1]: 32-bit integers
ImageDims == {-100, 0, 1, 32, 63, 64, 65, 100, 128, 192, 256, 1000, 1024}

\* static_cast<int32_t>(std::pow(2l, 6l))
p == 2^6

\* static_cast<double>(a) / static_cast<double>(b): exact for 32-bit
\* operands and a power-of-two divisor, kept as the fraction a / b
DoubleDiv(a, b) == <<a, b>>

\* static_cast<int32_t>(q) of a double q: the fraction is discarded
\* (rounding toward zero)
CastInt32(q) ==
    IF q[1] >= 0 THEN q[1] \div q[2] ELSE 0 - ((0 - q[1]) \div q[2])

\* a / b on 32-bit integers: the quotient with the fraction discarded
IntDiv(a, b) ==
    LET m == IF a < 0 THEN 0 - a ELSE a
        d == m \div b
    IN  IF a < 0 THEN 0 - d ELSE d

\* the condition of the if statement in Build
SizeCheckFails(h, w) ==
    \/ CastInt32(DoubleDiv(h, p)) # IntDiv(h, p)
    \/ CastInt32(DoubleDiv(w, p)) # IntDiv(w, p)

Build ==
    /\ buildSt.pc = "call"
    /\ buildSt' = [buildSt EXCEPT !.pc =
                      IF SizeCheckFails(buildSt.h, buildSt.w)
                      THEN "invalid_argument" ELSE "built"]
    /\ UNCHANGED <<loaderVars, cur, other, interleaved, polySt, bgdSt, mainSt, trainSt, layersSt>>

InitBuild ==
    /\ LoaderIdle
    /\ cur = 1
    /\ other = <<>>
    /\ interleaved = FALSE
    /\ buildSt \in [pc : {"call"}, h : ImageDims, w : ImageDims]
    /\ polySt = NoPoly
    /\ bgdSt = NoBgd
    /\ mainSt = NoMain
    /\ trainSt = NoTrain
    /\ layersSt = NoLayers

NextBuild ==
    \/ Build

SpecBuild == InitBuild /\ [][NextBuild]_vars

\* C13: Build throws invalid_argument exactly for the configurations
\* whose image height or width is not a multiple of 64, and accepts the
\* others.
C13_BuildRejectsNonMultiples ==
    buildSt.pc \in {"built", "invalid_argument"}
        => (buildSt.pc = "invalid_argument"
               <=> (buildSt.h % p # 0 \/ buildSt.w % p # 0))

\* ---------------------------------------------------------------------
\* polynomial regression: generate_polynomial
\* ---------------------------------------------------------------------

MaxRows == 3
MaxDegree == 4
Samples == {0, 1, 2, 5}

\* the sample vectors x (one dimension, at least one sample)
SampleVectors == UNION {[1..n -> Samples] : n \in 1..MaxRows}

Min(v) == CHOOSE m \in {v[i] : i \in 1..Len(v)} : \A i \in 1..Len(v) : m <= v[i]
Max(v) == CHOOSE m \in {v[i] : i \in 1..Len(v)} : \A i \in 1..Len(v) : m >= v[i]

\* a value of the matrix is kept as the fraction <<numerator, denominator>>
One == <<1, 1>>

\* (v - minmax[0]) / (minmax[1] - minmax[0]), element by element
minmax_scale(v) == [i \in 1..Len(v) |-> <<v[i] - Min(v), Max(v) - Min(v)>>]

\* xt::pow(x_col, i) on one element (pow(q, 0) is 1 for every q)
Pow(q, i) == IF i = 0 THEN One ELSE <<q[1]^i, q[2]^i>>

\* the matrix returned for degree >= 2: degree columns, column 0 the
\* ones, column 1 the scaled samples, column i the i-th power of
\* column 1 for 2 <= i < degree
PolyMatrix(x, degree) ==
    LET x_col == minmax_scale(x)
    IN  [r \in 1..Len(x) |->
            [c \in 1..degree |->
                CASE c = 1 -> One
                  [] c = 2 -> x_col[r]
                  [] OTHER -> Pow(x_col[r], c - 1)]]

\* degree < 2: the views of column 0 or 1 lie outside the rows x degree
\* storage.  The writes either fault or land in the adjacent elements
\* of the row-major storage (element (r, 1) of a one-column matrix is
\* element (r + 1, 0)).
OutOfBounds(x, degree) ==
    IF degree = 0 THEN {[r \in 1..Len(x) |-> <<>>]}
    ELSE {[r \in 1..Len(x) |-> <<One>>],
          [r \in 1..Len(x) |-> <<IF r = 1 THEN One ELSE minmax_scale(x)[r - 1]>>]}

generate_polynomial ==
    /\ polySt.pc = "call"
    /\ \/ /\ polySt.degree >= 2
          /\ polySt' = [polySt EXCEPT !.pc = "done",
                           !.poly_x = PolyMatrix(polySt.x, polySt.degree)]
       \/ /\ polySt.degree < 2
          /\ \E m \in OutOfBounds(polySt.x, polySt.degree),
                end \in {"done", "fault"} :
                polySt' = [polySt EXCEPT !.pc = end, !.poly_x = m]
    /\ UNCHANGED <<loaderVars, cur, other, interleaved, buildSt, bgdSt, mainSt, trainSt, layersSt>>

InitPoly ==
    /\ LoaderIdle
    /\ cur = 1
    /\ other = <<>>
    /\ interleaved = FALSE
    /\ buildSt = NoBuild
    /\ polySt \in [pc : {"call"}, x : SampleVectors, degree : 0..MaxDegree,
                   poly_x : {<<>>}]
    /\ bgdSt = NoBgd
    /\ mainSt = NoMain
    /\ trainSt = NoTrain
    /\ layersSt = NoLayers

NextPoly ==
    \/ generate_polynomial

SpecPoly == InitPoly /\ [][NextPoly]_vars

\* C14: generate_polynomial(x, degree), called for the order n = degree,
\* returns one row per sample, and row i holds the powers 0, 1, ..., n
\* of the scaled sample: column j is the j-th power for every j from 0
\* up to and including n (stated where the call is defined, n >= 2).
C14_PowersUpToOrder ==
    (polySt.pc = "done" /\ polySt.degree >= 2) =>
        /\ Len(polySt.poly_x) = Len(polySt.x)
        /\ \A r \in 1..Len(polySt.x) :
              /\ Len(polySt.poly_x[r]) = polySt.degree + 1
              /\ \A j \in 0..polySt.degree :
                    polySt.poly_x[r][j + 1] = Pow(minmax_scale(polySt.x)[r], j)

\* ---------------------------------------------------------------------
\* polynomial regression: bgd
\* ---------------------------------------------------------------------
\* bgdSt holds the locals of bgd that decide which rows are read: rows,
\* batch_size, batches, the loop counters i and bi, and two records of
\* the views taken: covered, the ranges [s, e) of the batches of the
\* running epoch, and used, the rows read by any batch so far.  The
\* coefficients b and the cost do not influence the loops.

MaxSampleRows == 7
MaxBatchSize == 3
n_epochs == 100

\* size_t batches = rows / batch_size
BatchesRoundedUp(rows, batch_size) == (rows + batch_size - 1) \div batch_size
Batches(rows, batch_size) == rows \div batch_size

\* entry: rows, cols, batches, b; i = 0
BgdEnter ==
    /\ bgdSt.pc = "call"
    /\ bgdSt' = [bgdSt EXCEPT !.pc = "epoch",
                    !.batches = Batches(bgdSt.rows, bgdSt.batch_size),
                    !.i = 0, !.bi = 0]
    /\ UNCHANGED <<loaderVars, cur, other, interleaved, buildSt, polySt, mainSt, trainSt, layersSt>>

\* one pass of the inner loop: the views of rows s .. e-1, the update of b
BgdBatch ==
    /\ bgdSt.pc = "epoch"
    /\ bgdSt.i < n_epochs
    /\ bgdSt.bi < bgdSt.batches
    /\ LET s == bgdSt.bi * bgdSt.batch_size
           e == s + bgdSt.batch_size
       IN  bgdSt' = [bgdSt EXCEPT !.covered = Append(@, <<s, e>>),
                        !.used = @ \cup (s..(e - 1)),
                        !.bi = @ + 1]
    /\ UNCHANGED <<loaderVars, cur, other, interleaved, buildSt, polySt, mainSt, trainSt, layersSt>>

\* the inner loop is over: cost is printed, ++i, and the next epoch
\* starts with bi = 0
BgdEpochEnd ==
    /\ bgdSt.pc = "epoch"
    /\ bgdSt.i < n_epochs
    /\ bgdSt.bi >= bgdSt.batches
    /\ bgdSt' = [bgdSt EXCEPT !.i = @ + 1, !.bi = 0, !.covered = <<>>]
    /\ UNCHANGED <<loaderVars, cur, other, interleaved, buildSt, polySt, mainSt, trainSt, layersSt>>

\* return b
BgdReturn ==
    /\ bgdSt.pc = "epoch"
    /\ bgdSt.i >= n_epochs
    /\ bgdSt' = [bgdSt EXCEPT !.pc = "done"]
    /\ UNCHANGED <<loaderVars, cur, other, interleaved, buildSt, polySt, mainSt, trainSt, layersSt>>

InitBgd ==
    /\ LoaderIdle
    /\ cur = 1
    /\ other = <<>>
    /\ interleaved = FALSE
    /\ buildSt = NoBuild
    /\ polySt = NoPoly
    /\ bgdSt \in {[NoBgd EXCEPT !.pc = "call", !.rows = r, !.batch_size = bs] :
                     r \in 0..MaxSampleRows, bs \in 1..MaxBatchSize}
    /\ mainSt = NoMain
    /\ trainSt = NoTrain
    /\ layersSt = NoLayers

NextBgd ==
    \/ BgdEnter
    \/ BgdBatch
    \/ BgdEpochEnd
    \/ BgdReturn

SpecBgd == InitBgd /\ [][NextBgd]_vars

\* the inner loop of the running epoch has finished
EpochComplete == bgdSt.pc = "epoch" /\ bgdSt.i < n_epochs /\ bgdSt.bi >= bgdSt.batches

\* C15: every epoch processes exactly floor(rows / batch_size) batches;
\* batch bi covers the rows [bi * batch_size, (bi + 1) * batch_size);
\* the batches of one epoch are pairwise disjoint and lie inside
\* [0, rows); the last rows mod batch_size rows are read by no batch of
\* any epoch.
C15_BatchesCoverPrefix ==
    LET rows == bgdSt.rows
        bs == bgdSt.batch_size
        cov == bgdSt.covered
    IN  bgdSt.pc \in {"epoch", "done"} =>
           /\ Len(cov) <= rows \div bs
           /\ EpochComplete => Len(cov) = rows \div bs
           /\ \A k \in 1..Len(cov) : cov[k] = <<(k - 1) * bs, k * bs>>
           /\ \A k \in 1..Len(cov) : 0 <= cov[k][1] /\ cov[k][2] <= rows
           /\ \A k, l \in 1..Len(cov) :
                 k # l => (cov[k][2] <= cov[l][1] \/ cov[l][2] <= cov[k][1])
           /\ \A r \in (rows - (rows % bs))..(rows - 1) : r \notin bgdSt.used

\* the last epoch of a run with 7 rows and batches of 3 has read its two
\* batches; row 6 is left over
C15_Witness ==
    /\ EpochComplete
    /\ bgdSt.i = n_epochs - 1
    /\ bgdSt.rows = 7 /\ bgdSt.batch_size = 3
    /\ bgdSt.covered = <<(<<0, 3>>), (<<3, 6>>)>>
    /\ bgdSt.used = 0..5

\* ---------------------------------------------------------------------
\* main: loading the weights
\* ---------------------------------------------------------------------
\* mainSt holds the model's named parameters (model), the locals dict and
\* params of the ".json" branch, the contents written to params.dat
\* (saved), whether params_path contains ".json" (json) and the mapping
\* the parameters file stands for (file).  Mappings are sequences of
\* [key, value] items, as in the loader.

ParamNames == {"fpn.C1.weight", "rpn.conv.weight", "mask.conv1.bias"}

\* a parameter as the model's constructor leaves it, and as a checkpoint
\* read by torch::load holds it
InitTensor == [defined |-> TRUE, sizes |-> <<1>>, data |-> <<0>>]
TrainedTensor == [defined |-> TRUE, sizes |-> <<1>>, data |-> <<1>>]

\* the parameters of the model after construction
NewModel ==
    <<[key |-> "fpn.C1.weight", value |-> InitTensor],
      [key |-> "rpn.conv.weight", value |-> InitTensor],
      [key |-> "mask.conv1.bias", value |-> InitTensor]>>

\* mappings over some of the parameter names, each name at most once,
\* in any order, with tensor t under every name
MappingsOf(t) ==
    {m \in UNION {[1..n -> [key : ParamNames, value : {t}]] : n \in 0..3} :
        \A i, j \in 1..Len(m) : i # j => m[i].key # m[j].key}

\* what LoadStateDict returns for a file: each stored tensor is the
\* handler's tensor_, which is never assigned
LoadedMappings == MappingsOf(UndefinedTensor)
\* what a saved model file holds
SavedModels == MappingsOf(TrainedTensor)

\* the value under key k in mapping d
Lookup(d, k) == d[CHOOSE i \in 1..Len(d) : d[i].key = k].value

\* torch::load(model, path): parameters found in the file are replaced
LoadInto(m, f) ==
    [i \in 1..Len(m) |->
        IF HasKey(f, m[i].key) THEN [m[i] EXCEPT !.value = Lookup(f, m[i].key)]
        ELSE m[i]]

\* auto dict = LoadStateDict(params_path)
MainLoadStateDict ==
    /\ mainSt.pc = "start"
    /\ mainSt.json
    /\ mainSt' = [mainSt EXCEPT !.pc = "loaded", !.dict = mainSt.file]
    /\ UNCHANGED <<loaderVars, cur, other, interleaved, buildSt, polySt, bgdSt,
                   trainSt, layersSt>>

\* LoadStateDict throws: main prints err.what() and returns 1
MainLoadStateDictThrows ==
    /\ mainSt.pc = "start"
    /\ mainSt.json
    /\ mainSt' = [mainSt EXCEPT !.pc = "failed"]
    /\ UNCHANGED <<loaderVars, cur, other, interleaved, buildSt, polySt, bgdSt,
                   trainSt, layersSt>>

\* auto params = model->named_parameters(true): a new OrderedDict whose
\* items refer to the model's tensors; the model keeps its own
MainNamedParameters ==
    /\ mainSt.pc = "loaded"
    /\ mainSt' = [mainSt EXCEPT !.pc = "copied", !.params = mainSt.model]
    /\ UNCHANGED <<loaderVars, cur, other, interleaved, buildSt, polySt, bgdSt,
                   trainSt, layersSt>>

\* params = dict: the local OrderedDict is replaced by a copy of dict
MainAssign ==
    /\ mainSt.pc = "copied"
    /\ mainSt' = [mainSt EXCEPT !.pc = "assigned", !.params = mainSt.dict]
    /\ UNCHANGED <<loaderVars, cur, other, interleaved, buildSt, polySt, bgdSt,
                   trainSt, layersSt>>

\* torch::save(model, "params.dat")
MainSave ==
    /\ mainSt.pc = "assigned"
    /\ mainSt' = [mainSt EXCEPT !.pc = "ready", !.saved = mainSt.model]
    /\ UNCHANGED <<loaderVars, cur, other, interleaved, buildSt, polySt, bgdSt,
                   trainSt, layersSt>>

\* the else branch: torch::load(model, params_path)
MainTorchLoad ==
    /\ mainSt.pc = "start"
    /\ ~mainSt.json
    /\ mainSt' = [mainSt EXCEPT !.pc = "ready",
                     !.model = LoadInto(mainSt.model, mainSt.file)]
    /\ UNCHANGED <<loaderVars, cur, other, interleaved, buildSt, polySt, bgdSt,
                   trainSt, layersSt>>

\* model->Detect(molded_images, image_metas)
MainDetect ==
    /\ mainSt.pc = "ready"
    /\ mainSt' = [mainSt EXCEPT !.pc = "detected"]
    /\ UNCHANGED <<loaderVars, cur, other, interleaved, buildSt, polySt, bgdSt,
                   trainSt, layersSt>>

InitMain ==
    /\ LoaderIdle
    /\ cur = 1
    /\ other = <<>>
    /\ interleaved = FALSE
    /\ buildSt = NoBuild
    /\ polySt = NoPoly
    /\ bgdSt = NoBgd
    /\ \E j \in BOOLEAN :
          \E f \in (IF j THEN LoadedMappings ELSE SavedModels) :
             mainSt = [NoMain EXCEPT !.pc = "start", !.json = j, !.file = f,
                          !.model = NewModel]
    /\ trainSt = NoTrain
    /\ layersSt = NoLayers

NextMain ==
    \/ MainLoadStateDict
    \/ MainLoadStateDictThrows
    \/ MainNamedParameters
    \/ MainAssign
    \/ MainSave
    \/ MainTorchLoad
    \/ MainDetect

SpecMain == InitMain /\ [][NextMain]_vars

\* every tensor of mapping d is the value of its name in mapping m
Holds(m, d) ==
    \A i \in 1..Len(d) : HasKey(m, d[i].key) /\ Lookup(m, d[i].key) = d[i].value

\* C24: when params_path contains ".json", after the weight-loading
\* branch the model's named parameters hold the tensors LoadStateDict
\* returned, both when Detect runs and in what was saved to params.dat.
C24_LoadedWeightsInModel ==
    (mainSt.json /\ mainSt.pc \in {"ready", "detected"})
        => (Holds(mainSt.model, mainSt.dict) /\ Holds(mainSt.saved, mainSt.dict))

\* ---------------------------------------------------------------------
\* MaskRCNNImpl::Train: the epoch loop
\* ---------------------------------------------------------------------
\* trainSt holds the argument epochs, the loop counter epoch, the epochs
\* whose TrainEpoch call returned (trained) and the paths SaveStateDict
\* was called with (saveCalls), in the order of the calls.

MaxEpochs == 12

DigitChars == <<"0", "1", "2", "3", "4", "5", "6", "7", "8", "9">>

\* std::to_string of an unsigned number: its decimal digits
RECURSIVE to_string(_)
to_string(n) ==
    IF n < 10 THEN <<DigitChars[n + 1]>>
    ELSE Append(to_string(n \div 10), DigitChars[(n % 10) + 1])

\* fs::path(model_dir_) / ("checkpoint_epoch_" + std::to_string(epoch) + ".pt")
GetCheckpointPathLastDigit(epoch) ==
    <<"model_dir", <<"checkpoint_epoch_">> \o to_string(epoch % 10) \o <<".pt">> >>
GetCheckpointPath(epoch) ==
    <<"model_dir", <<"checkpoint_epoch_">> \o to_string(epoch) \o <<".pt">> >>

\* up to the loop: SetTrainableLayers, the data loaders, the optimizers
TrainEnter ==
    /\ trainSt.pc = "call"
    /\ trainSt' = [trainSt EXCEPT !.pc = "loop", !.epoch = 0]
    /\ UNCHANGED <<loaderVars, cur, other, interleaved, buildSt, polySt, bgdSt,
                   mainSt, layersSt>>

\* TrainEpoch(...) returns the losses
TrainEpochReturns ==
    /\ trainSt.pc = "loop"
    /\ trainSt.epoch < trainSt.epochs
    /\ trainSt' = [trainSt EXCEPT !.pc = "save",
                      !.trained = Append(@, trainSt.epoch)]
    /\ UNCHANGED <<loaderVars, cur, other, interleaved, buildSt, polySt, bgdSt,
                   mainSt, layersSt>>

\* TrainEpoch(...) throws: the exception leaves Train
TrainEpochThrows ==
    /\ trainSt.pc = "loop"
    /\ trainSt.epoch < trainSt.epochs
    /\ trainSt' = [trainSt EXCEPT !.pc = "failed"]
    /\ UNCHANGED <<loaderVars, cur, other, interleaved, buildSt, polySt, bgdSt,
                   mainSt, layersSt>>

\* SaveStateDict(*this, GetCheckpointPath(epoch)); ++epoch
TrainSaveStateDict ==
    /\ trainSt.pc = "save"
    /\ trainSt' = [trainSt EXCEPT !.pc = "loop",
                      !.saveCalls = Append(@, GetCheckpointPath(trainSt.epoch)),
                      !.epoch = @ + 1]
    /\ UNCHANGED <<loaderVars, cur, other, interleaved, buildSt, polySt, bgdSt,
                   mainSt, layersSt>>

\* SaveStateDict is called and throws: the exception leaves Train
TrainSaveStateDictThrows ==
    /\ trainSt.pc = "save"
    /\ trainSt' = [trainSt EXCEPT !.pc = "failed",
                      !.saveCalls = Append(@, GetCheckpointPath(trainSt.epoch))]
    /\ UNCHANGED <<loaderVars, cur, other, interleaved, buildSt, polySt, bgdSt,
                   mainSt, layersSt>>

\* epoch < epochs is false: Train returns
TrainReturn ==
    /\ trainSt.pc = "loop"
    /\ trainSt.epoch >= trainSt.epochs
    /\ trainSt' = [trainSt EXCEPT !.pc = "done"]
    /\ UNCHANGED <<loaderVars, cur, other, interleaved, buildSt, polySt, bgdSt,
                   mainSt, layersSt>>

InitTrain ==
    /\ LoaderIdle
    /\ cur = 1
    /\ other = <<>>
    /\ interleaved = FALSE
    /\ buildSt = NoBuild
    /\ polySt = NoPoly
    /\ bgdSt = NoBgd
    /\ mainSt = NoMain
    /\ trainSt \in {[NoTrain EXCEPT !.pc = "call", !.epochs = n] : n \in 0..MaxEpochs}
    /\ layersSt = NoLayers

NextTrain ==
    \/ TrainEnter
    \/ TrainEpochReturns
    \/ TrainEpochThrows
    \/ TrainSaveStateDict
    \/ TrainSaveStateDictThrows
    \/ TrainReturn

SpecTrain == InitTrain /\ [][NextTrain]_vars

\* the number a sequence of decimal digits stands for
RECURSIVE DecimalValue(_)
DecimalValue(ds) ==
    IF ds = <<>> THEN 0
    ELSE 10 * DecimalValue(SubSeq(ds, 1, Len(ds) - 1))
         + ((CHOOSE d \in 1..10 : DigitChars[d] = ds[Len(ds)]) - 1)

\* path is model_dir/checkpoint_epoch_<e>.pt
IsCheckpointOf(path, e) ==
    /\ path[1] = "model_dir"
    /\ Len(path[2]) >= 3
    /\ Head(path[2]) = "checkpoint_epoch_"
    /\ path[2][Len(path[2])] = ".pt"
    /\ DecimalValue(SubSeq(path[2], 2, Len(path[2]) - 1)) = e
    /\ Len(path[2]) > 3 => path[2][2] # "0"

\* C25: Train runs TrainEpoch for epoch = 0, 1, ..., epochs-1 in this
\* order, exactly epochs times when it returns; after each TrainEpoch that
\* returned it calls SaveStateDict once with
\* model_dir/checkpoint_epoch_<epoch>.pt; the paths are pairwise distinct
\* and none is written for an epoch whose TrainEpoch did not return.
C25_OneCheckpointPerEpoch ==
    LET t == trainSt
    IN  t.pc \in {"loop", "save", "failed", "done"} =>
           /\ t.trained = [i \in 1..Len(t.trained) |-> i - 1]
           /\ Len(t.trained) <= t.epochs
           /\ t.pc = "done" => Len(t.trained) = t.epochs
           /\ Len(t.saveCalls) <= Len(t.trained)
           /\ t.pc \in {"loop", "done"} => Len(t.saveCalls) = Len(t.trained)
           /\ t.pc = "save" => Len(t.saveCalls) = Len(t.trained) - 1
           /\ \A i \in 1..Len(t.saveCalls) :
                 IsCheckpointOf(t.saveCalls[i], t.trained[i])
           /\ \A i, j \in 1..Len(t.saveCalls) :
                 i # j => t.saveCalls[i] # t.saveCalls[j]

\* a run of twelve epochs has returned; the checkpoints of epochs 1 and
\* 10 are different files
C25_Witness ==
    /\ trainSt.pc = "done"
    /\ trainSt.epochs = 12
    /\ Len(trainSt.saveCalls) = 12
    /\ trainSt.saveCalls[2] = <<"model_dir", <<"checkpoint_epoch_", "1", ".pt">> >>
    /\ trainSt.saveCalls[11] = <<"model_dir", <<"checkpoint_epoch_", "1", "0", ".pt">> >>

\* ---------------------------------------------------------------------
\* MaskRCNNImpl::SetTrainableLayers
\* ---------------------------------------------------------------------
\* layersSt holds the regular expression of the running call (re), the
\* position of the loop over named_parameters (i), requires_grad of every
\* parameter (grad) and its value when the call began (before).
\* A parameter name is the sequence of its parts; a regular expression of
\* the form (p1.*)|(p2.*)|... is the set of its prefixes p1, p2, ...

\* named_parameters(true): the names, and whether the parameter belongs
\* to a module that Build's set_bn_fix froze
LayerParams ==
    <<[name |-> <<"fpn", "C1", "conv1", "weight">>, batchNorm |-> FALSE],
      [name |-> <<"fpn", "C1", "bn1", "weight">>, batchNorm |-> TRUE],
      [name |-> <<"fpn", "C4", "conv1", "weight">>, batchNorm |-> FALSE],
      [name |-> <<"fpn", "P5_", "conv1", "weight">>, batchNorm |-> FALSE],
      [name |-> <<"rpn", "conv_shared", "weight">>, batchNorm |-> FALSE],
      [name |-> <<"classifier", "bn1", "weight">>, batchNorm |-> TRUE],
      [name |-> <<"mask", "conv1", "weight">>, batchNorm |-> FALSE]>>

Heads ==
    {<<"fpn", "P5_">>, <<"fpn", "P4_">>, <<"fpn", "P3_">>, <<"fpn", "P2_">>,
     <<"rpn">>, <<"classifier">>, <<"mask">>}
\* the expressions of layers_regex_map, and two given by the caller
LayerRegexes ==
    {Heads,
     Heads \cup {<<"fpn", "C3">>, <<"fpn", "C4">>, <<"fpn", "C5">>},
     Heads \cup {<<"fpn", "C4">>, <<"fpn", "C5">>},
     Heads \cup {<<"fpn", "C5">>},
     {<<>>},
     {<<"mask">>},
     {<<"fpn", "C1">>}}

\* std::regex_match(layer_name, m, re)
Matches(name, re) ==
    \E pre \in re :
        Len(pre) <= Len(name) /\ SubSeq(name, 1, Len(pre)) = pre

\* requires_grad after Build: set_bn_fix has frozen the batch-norm modules
AfterBuild == [i \in 1..Len(LayerParams) |-> ~LayerParams[i].batchNorm]

\* SetTrainableLayers(layers_regex): regex, named_parameters, loop start
SetTrainableLayers ==
    /\ layersSt.pc \in {"built", "done"}
    /\ \E re \in LayerRegexes :
          layersSt' = [layersSt EXCEPT !.pc = "loop", !.re = re, !.i = 1,
                          !.before = layersSt.grad]
    /\ UNCHANGED <<loaderVars, cur, other, interleaved, buildSt, polySt, bgdSt,
                   mainSt, trainSt>>

\* one pass of the loop over the parameters
SetTrainableStepAssigns ==
    /\ layersSt.pc = "loop"
    /\ layersSt.i <= Len(LayerParams)
    /\ LET is_trainable == Matches(LayerParams[layersSt.i].name, layersSt.re)
       IN  layersSt' = [layersSt EXCEPT !.grad[layersSt.i] = is_trainable,
                           !.i = @ + 1]
    /\ UNCHANGED <<loaderVars, cur, other, interleaved, buildSt, polySt, bgdSt,
                   mainSt, trainSt>>

SetTrainableStep ==
    /\ layersSt.pc = "loop"
    /\ layersSt.i <= Len(LayerParams)
    /\ LET is_trainable == Matches(LayerParams[layersSt.i].name, layersSt.re)
       IN  layersSt' = [layersSt EXCEPT
                           !.grad[layersSt.i] = IF ~is_trainable THEN FALSE ELSE @,
                           !.i = @ + 1]
    /\ UNCHANGED <<loaderVars, cur, other, interleaved, buildSt, polySt, bgdSt,
                   mainSt, trainSt>>

\* the loop is over
SetTrainableReturn ==
    /\ layersSt.pc = "loop"
    /\ layersSt.i > Len(LayerParams)
    /\ layersSt' = [layersSt EXCEPT !.pc = "done"]
    /\ UNCHANGED <<loaderVars, cur, other, interleaved, buildSt, polySt, bgdSt,
                   mainSt, trainSt>>

InitLayers ==
    /\ LoaderIdle
    /\ cur = 1
    /\ other = <<>>
    /\ interleaved = FALSE
    /\ buildSt = NoBuild
    /\ polySt = NoPoly
    /\ bgdSt = NoBgd
    /\ mainSt = NoMain
    /\ trainSt = NoTrain
    /\ layersSt = [NoLayers EXCEPT !.pc = "built", !.grad = AfterBuild,
                      !.before = AfterBuild]

NextLayers ==
    \/ SetTrainableLayers
    \/ SetTrainableStep
    \/ SetTrainableReturn

SpecLayers == InitLayers /\ [][NextLayers]_vars

\* C26: SetTrainableLayers only disables gradients: when it returns,
\* every parameter whose name does not match has requires_grad = false
\* and every matching parameter has the value it had before the call; at
\* no point does a parameter go from non-trainable to trainable, and the
\* batch-norm parameters frozen by Build stay frozen, also under ".*".
C26_OnlyDisables ==
    LET n == Len(LayerParams)
        l == layersSt
    IN  l.pc \in {"loop", "done"} =>
           /\ \A q \in 1..n : l.grad[q] => l.before[q]
           /\ \A q \in 1..n : LayerParams[q].batchNorm => ~l.grad[q]
           /\ l.pc = "done" =>
                 \A q \in 1..n :
                    IF Matches(LayerParams[q].name, l.re)
                    THEN l.grad[q] = l.before[q]
                    ELSE ~l.grad[q]

\* a call with ".*" has returned after an earlier call had frozen all but
\* the heads: the batch-norm parameters and the backbone are still frozen
C26_Witness ==
    /\ layersSt.pc = "done"
    /\ layersSt.re = {<<>>}
    /\ layersSt.grad = <<FALSE, FALSE, FALSE, TRUE, TRUE, FALSE, TRUE>>

====
